---- MODULE Spec2Model ----
(***************************************************************************)
(* Model of PrismaToDrizzleTransformer                                     *)
(* (packages/prisma-to-drizzle-query-transformer/src/lib/                  *)
(*  prisma-to-drizzle-query-transformer.ts).                               *)
(*                                                                         *)
(* JavaScript values are tagged records:                                   *)
(*   undefined, null, numbers, strings, booleans, plain objects (an        *)
(*   ordered sequence of key/value entries, as Object.entries sees them),  *)
(*   arrays, table columns, drizzle SQL nodes and thrown errors.           *)
(* A property that is absent from an object reads as undefined, so the     *)
(* records built by transformQuery and withCursorPagination carry every    *)
(* member, with undefined for a member that was never set.                 *)
(***************************************************************************)
EXTENDS Integers, Sequences, FiniteSets, TLC

VARIABLES model, call, pc, result

vars == <<model, call, pc, result>>

-----------------------------------------------------------------------------
(* Bounds of the checked input space.                                      *)

\* literal operands and column values range over 0..MaxVal
MaxVal == 2
\* longest AND/OR/NOT sub-tree array and longest in/notIn operand array
MaxList == 2

-----------------------------------------------------------------------------
(* JavaScript values                                                       *)

Undef == [t |-> "undefined"]
Null == [t |-> "null"]
Num(n) == [t |-> "number", n |-> n]
Str(s) == [t |-> "string", s |-> s]
Bool(b) == [t |-> "boolean", b |-> b]
Obj(entries) == [t |-> "object", entries |-> entries]
Arr(elems) == [t |-> "array", elems |-> elems]
Column(name) == [t |-> "column", name |-> name]
Throw(msg) == [t |-> "throw", msg |-> msg]

\* one entry of a plain object
KV(k, v) == [k |-> k, v |-> v]

IsThrow(v) == v.t = "throw"

\* JavaScript truthiness, as used by `if (x)`, `x ? a : b`, `!x` and `a && b`
Truthy(v) ==
  CASE v.t = "undefined" -> FALSE
    [] v.t = "null" -> FALSE
    [] v.t = "number" -> v.n # 0
    [] v.t = "string" -> v.s # ""
    [] v.t = "boolean" -> v.b
    [] OTHER -> TRUE

\* typeof v === 'object'  (null and arrays included)
TypeofObject(v) == v.t \in {"null", "object", "array", "sql", "column"}

\* typeof v === 'object' && v?.constructor.name === 'Object'
IsPlainObject(v) == v.t = "object"

IsArray(v) == v.t = "array"

\* the decimal key of array index i (0-based), as Object.entries names it
IndexKey(i) ==
  CASE i = 0 -> "0" [] i = 1 -> "1" [] i = 2 -> "2" [] i = 3 -> "3"
    [] i = 4 -> "4" [] i = 5 -> "5" [] i = 6 -> "6" [] i = 7 -> "7"
    [] i = 8 -> "8" [] OTHER -> "9"

\* Object.entries(v) and property reads of v throw a TypeError for null and
\* undefined
IsNullish(v) == v.t \in {"null", "undefined"}

\* Object.entries(v), v not nullish: the own enumerable entries in insertion
\* order; nothing for a primitive.
ObjectEntries(v) ==
  CASE v.t = "object" -> v.entries
    [] v.t = "array" -> [i \in 1..Len(v.elems) |-> KV(IndexKey(i - 1), v.elems[i])]
    [] OTHER -> <<>>

\* obj[key] / obj.key for a property name that is no array index
Get(obj, key) ==
  IF obj.t = "object" /\ \E i \in 1..Len(obj.entries) : obj.entries[i].k = key
  THEN LET i == CHOOSE j \in 1..Len(obj.entries) : obj.entries[j].k = key
       IN obj.entries[i].v
  ELSE Undef

\* the first thrown error of a sequence of results, evaluated left to right
HasThrow(rs) == \E i \in 1..Len(rs) : IsThrow(rs[i])
FirstThrow(rs) ==
  rs[CHOOSE i \in 1..Len(rs) :
       IsThrow(rs[i]) /\ \A j \in 1..(i - 1) : ~IsThrow(rs[j])]

Defined(v) == v.t # "undefined"

\* array.filter((c) => c !== undefined)
RECURSIVE FilterDefined(_)
FilterDefined(s) ==
  IF s = <<>> THEN <<>>
  ELSE (IF Defined(Head(s)) THEN <<Head(s)>> ELSE <<>>) \o FilterDefined(Tail(s))

\* array.flat() of a sequence of sequences
RECURSIVE Flatten(_)
Flatten(ss) == IF ss = <<>> THEN <<>> ELSE Head(ss) \o Flatten(Tail(ss))

-----------------------------------------------------------------------------
(* drizzle-orm expression builders.  A built expression is kept as the     *)
(* tree of builder calls that made it.                                     *)

Sql1(op, a) == [t |-> "sql", op |-> op, arg |-> a]
Sql2(op, column, value) == [t |-> "sql", op |-> op, column |-> column, value |-> value]
SqlN(op, args) == [t |-> "sql", op |-> op, args |-> args]

\* and(...conditions): undefined conditions are dropped; none left gives
\* undefined; one left gives new SQL([c]); more are joined by " and ".
and(conditions) ==
  LET cs == FilterDefined(conditions)
  IN CASE Len(cs) = 0 -> Undef
       [] Len(cs) = 1 -> SqlN("sql", cs)
       [] OTHER -> SqlN("and", cs)

\* or(...conditions): as and, joined by " or "
or(conditions) ==
  LET cs == FilterDefined(conditions)
  IN CASE Len(cs) = 0 -> Undef
       [] Len(cs) = 1 -> SqlN("sql", cs)
       [] OTHER -> SqlN("or", cs)

not(condition) == Sql1("not", condition)
asc(column) == Sql1("asc", column)
desc(column) == Sql1("desc", column)
isNull(column) == Sql1("isNull", column)
isNotNull(column) == Sql1("isNotNull", column)
eq(column, value) == Sql2("eq", column, value)
ne(column, value) == Sql2("ne", column, value)
gt(column, value) == Sql2("gt", column, value)
gte(column, value) == Sql2("gte", column, value)
lt(column, value) == Sql2("lt", column, value)
lte(column, value) == Sql2("lte", column, value)
like(column, value) == Sql2("like", column, value)
ilike(column, value) == Sql2("ilike", column, value)
notLike(column, value) == Sql2("notLike", column, value)
notIlike(column, value) == Sql2("notIlike", column, value)
inArray(column, values) == Sql2("inArray", column, values)
notInArray(column, values) == Sql2("notInArray", column, values)
arrayContains(column, values) == Sql2("arrayContains", column, values)
arrayContained(column, values) == Sql2("arrayContained", column, values)
arrayOverlaps(column, values) == Sql2("arrayOverlaps", column, values)

-----------------------------------------------------------------------------
(* The table descriptor                                                    *)

\* this.model[key]: the column of that name, or undefined
ModelGet(key) == IF key \in model THEN Column(key) ELSE Undef

-----------------------------------------------------------------------------
(* Where Parser and Operator Resolver                                      *)

LogicalOperators == {"AND", "OR", "NOT"}

\* the keys of the record operatorMap builds
OperatorNames ==
  {"not", "in", "notIn", "lt", "lte", "gt", "gte", "contains", "equals",
   "has", "hasEvery", "hasSome"}

\* a comparison operator of operatorMap (lt, lte, gt, gte): negated when the
\* field is named NOT
Comparison(op, fieldOrJoinOperator, property, operatorValue) ==
  IF fieldOrJoinOperator = "NOT"
  THEN not(Sql2(op, property, operatorValue))
  ELSE Sql2(op, property, operatorValue)

\* faulty variant: no check that the operand is an array
operatorMapInUnchecked(property, operatorValue) == inArray(property, operatorValue)

\* operatorMap(...).in
operatorMapIn(property, operatorValue) ==
  IF IsArray(operatorValue)
  THEN inArray(property, operatorValue)
  ELSE Throw("Value for 'in' operator must be an array")

\* operatorMap(...).notIn
operatorMapNotIn(property, operatorValue) ==
  IF IsArray(operatorValue)
  THEN notInArray(property, operatorValue)
  ELSE Throw("Value for 'notIn' operator must be an array")

\* operatorMap(...).contains
operatorMapContains(operatorObject, operatorValue, fieldOrJoinOperator, property) ==
  LET mode == Get(operatorObject, "mode")
  IN CASE IsArray(operatorValue) -> Throw("Value for 'contains' operator must be a string")
       [] operatorValue = Null -> Throw("Value for 'contains' operator must be a string")
       [] fieldOrJoinOperator = "NOT" ->
            IF mode = Str("insensitive")
            THEN notIlike(property, operatorValue)
            ELSE notLike(property, operatorValue)
       [] OTHER ->
            IF mode = Str("insensitive")
            THEN ilike(property, operatorValue)
            ELSE like(property, operatorValue)

\* faulty variant: the test for the NOT context is inverted
operatorMapEqualsInverted(operatorValue, fieldOrJoinOperator, property) ==
  IF fieldOrJoinOperator # "NOT"
  THEN ne(property, operatorValue)
  ELSE eq(property, operatorValue)

\* operatorMap(...).equals
operatorMapEquals(operatorValue, fieldOrJoinOperator, property) ==
  IF fieldOrJoinOperator = "NOT"
  THEN ne(property, operatorValue)
  ELSE eq(property, operatorValue)

\* operatorMap(...).not.  For an operand with typeof 'object' the function
\* calls parseOperators with the very arguments it was reached with, which
\* selects this function again: the recursion never ends and the engine
\* throws RangeError (maximum call stack size exceeded).
operatorMapNot(operatorValue, property) ==
  CASE operatorValue = Null -> isNotNull(property)
    [] TypeofObject(operatorValue) -> Throw("RangeError")
    [] OTHER -> not(eq(property, operatorValue))

\* operatorMap(args, property)[operator](), operator one of OperatorNames
operatorMap(operatorObject, operator, operatorValue, fieldOrJoinOperator, property) ==
  CASE operator = "not" -> operatorMapNot(operatorValue, property)
    [] operator = "in" -> operatorMapIn(property, operatorValue)
    [] operator = "notIn" -> operatorMapNotIn(property, operatorValue)
    [] operator \in {"lt", "lte", "gt", "gte"} ->
         Comparison(operator, fieldOrJoinOperator, property, operatorValue)
    [] operator = "contains" ->
         operatorMapContains(operatorObject, operatorValue, fieldOrJoinOperator, property)
    [] operator = "equals" -> operatorMapEquals(operatorValue, fieldOrJoinOperator, property)
    [] operator = "has" -> arrayContains(property, operatorValue)
    [] operator = "hasEvery" -> arrayContained(property, operatorValue)
    [] operator = "hasSome" -> arrayOverlaps(property, operatorValue)

\* faulty variant: the join operator is never switched to or
joinOperatorAlwaysAnd(fieldOrJoinOperator, conditions) == and(conditions)

\* faulty variant: the elements of a NOT array are joined with or
joinOperatorNotWithOr(fieldOrJoinOperator, conditions) ==
  IF fieldOrJoinOperator \in {"OR", "NOT"} THEN or(conditions) ELSE and(conditions)

\* let joinOperator = and; if (fieldOrJoinOperator === 'OR') joinOperator = or
joinOperator(fieldOrJoinOperator, conditions) ==
  IF fieldOrJoinOperator = "OR" THEN or(conditions) ELSE and(conditions)

\* parseWhere's closing combination of an operator object's predicates
CombineOperators(identifier, operators) ==
  CASE Len(operators) = 1 -> operators[1]
    [] identifier = "OR" -> or(operators)
    [] OTHER -> and(operators)

\* parseWhere's `default` case: a literal value
WhereLiteral(identifier, value) ==
  IF ~Truthy(ModelGet(identifier))
  THEN Throw("Invalid where field")
  ELSE eq(ModelGet(identifier), value)

\* parseWhere's `value === null` case
WhereNull(identifier) ==
  IF ~Truthy(ModelGet(identifier))
  THEN Throw("Invalid where field")
  ELSE isNull(ModelGet(identifier))

\* the entries of an operator object without the filteredObjectKeys
RECURSIVE WithoutMode(_)
WithoutMode(entries) ==
  IF entries = <<>> THEN <<>>
  ELSE (IF Head(entries).k = "mode" THEN <<>> ELSE <<Head(entries)>>)
       \o WithoutMode(Tail(entries))

RECURSIVE parseWhere(_), parseWhereEntry(_, _), parseOperators(_, _, _, _)

parseOperators(operatorObject, operator, operatorValue, fieldOrJoinOperator) ==
  IF operator \in LogicalOperators
  THEN LET objs == IF IsArray(operatorObject)
                   THEN operatorObject.elems
                   ELSE <<operatorObject>>
           rs == [i \in 1..Len(objs) |->
                    LET w == parseWhere(objs[i])
                    IN IF fieldOrJoinOperator = "NOT" /\ ~IsThrow(w) THEN not(w) ELSE w]
       IN IF HasThrow(rs) THEN FirstThrow(rs) ELSE joinOperator(fieldOrJoinOperator, rs)
  ELSE LET property == ModelGet(fieldOrJoinOperator)
       IN CASE ~Truthy(property) -> Throw("Invalid field")
            [] operator \notin OperatorNames -> Throw("Unsupported operator")
            [] OTHER -> operatorMap(operatorObject, operator, operatorValue,
                                    fieldOrJoinOperator, property)

\* the callback parseWhere maps over Object.entries(where)
parseWhereEntry(identifier, value) ==
  CASE value = Null -> WhereNull(identifier)
    [] IsPlainObject(value) ->
         LET es == WithoutMode(ObjectEntries(value))
             operators == [i \in 1..Len(es) |->
                             parseOperators(value, es[i].k, es[i].v, identifier)]
         IN IF HasThrow(operators) THEN FirstThrow(operators)
            ELSE CombineOperators(identifier, operators)
    [] IsArray(value) -> parseOperators(value, identifier, value, identifier)
    [] value = Undef -> Undef
    [] OTHER -> WhereLiteral(identifier, value)

parseWhere(where) ==
  IF IsNullish(where) THEN Throw("TypeError")
  ELSE LET es == ObjectEntries(where)
           rs == [i \in 1..Len(es) |-> parseWhereEntry(es[i].k, es[i].v)]
       IN IF HasThrow(rs) THEN FirstThrow(rs) ELSE and(rs)

-----------------------------------------------------------------------------
(* Cursor Pagination Rewriter                                              *)

\* cursors[i][1] === 'asc' ? asc : desc
OrderOf(direction) == IF direction = Str("asc") THEN "asc" ELSE "desc"

\* cursors[0][1] === 'asc' ? gt : lt
primaryOperator(direction) == IF direction = Str("asc") THEN "gt" ELSE "lt"

\* faulty variant: the secondary comparator ignores the declared direction
secondaryOperatorAlwaysGt(direction) == "gt"

\* getSecondaryOrderAndOperator()[1]
secondaryOperator(direction) == IF direction = Str("asc") THEN "gt" ELSE "lt"

singleColumnPaginationWhere(cursors) ==
  IF Defined(cursors[1][3])
  THEN Sql2(primaryOperator(cursors[1][2]), cursors[1][1], cursors[1][3])
  ELSE Undef

doubleColumnPaginationWhere(cursors) ==
  IF /\ Len(cursors) >= 2
     /\ Truthy(cursors[2][1])
     /\ Defined(cursors[1][3])
     /\ Defined(cursors[2][3])
  THEN or(<<Sql2(primaryOperator(cursors[1][2]), cursors[1][1], cursors[1][3]),
            and(<<eq(cursors[1][1], cursors[1][3]),
                  Sql2(secondaryOperator(cursors[2][2]), cursors[2][1], cursors[2][3])>>)>>)
  ELSE Undef

\* const secondaryColumn = cursors[1] ? cursors[1][0] : null
secondaryColumn(cursors) == IF Len(cursors) >= 2 THEN cursors[2][1] ELSE Null

paginationWhere(cursors) ==
  IF Truthy(secondaryColumn(cursors))
  THEN doubleColumnPaginationWhere(cursors)
  ELSE singleColumnPaginationWhere(cursors)

\* faulty variant: the boundary predicate replaces the existing filter
FinalWhereDropsInput(inputWhere, pagination) ==
  IF Truthy(pagination) THEN pagination ELSE inputWhere

\* const where = inputWhere ? getWhere() : paginationWhere
FinalWhere(inputWhere, pagination) ==
  IF Truthy(inputWhere)
  THEN (IF Truthy(pagination) THEN and(<<inputWhere, pagination>>) ELSE inputWhere)
  ELSE pagination

\* the orderBy member of the returned object
CursorOrderBy(cursors) ==
  <<Sql1(OrderOf(cursors[1][2]), cursors[1][1])>>
  \o (IF Truthy(secondaryColumn(cursors))
      THEN <<Sql1(OrderOf(cursors[2][2]), cursors[2][1])>>
      ELSE <<>>)

\* cursors: one or two triples <<column, direction, cursor value>>, the
\* third undefined when the triple has two elements
withCursorPagination(cursors, limit, inputWhere) ==
  LET where == FinalWhere(inputWhere, paginationWhere(cursors))
  IN [orderBy |-> Arr(CursorOrderBy(cursors)),
      limit |-> limit,
      where |-> IF Truthy(where) THEN where ELSE Undef]

-----------------------------------------------------------------------------
(* Projection Mapper and Query Translator                                  *)

\* the response object of transformQuery
DrizzleQueryArgs(where, with, columns, limit, offset, orderBy) ==
  [t |-> "args", where |-> where, with |-> with, columns |-> columns,
   limit |-> limit, offset |-> offset, orderBy |-> orderBy]

\* one sort term of transformQuery's orderBy mapping
OrderByTerm(key, value) ==
  IF ~Truthy(ModelGet(key))
  THEN Throw("Invalid orderBy field")
  ELSE IF value = Str("asc") THEN asc(ModelGet(key)) ELSE desc(ModelGet(key))

\* response.orderBy = argsOrderByArrayValue.flatMap(...)
OrderByTerms(orderBy) ==
  LET list == IF ~IsArray(orderBy) THEN <<orderBy>> ELSE orderBy.elems
      rs == Flatten([i \in 1..Len(list) |->
                       IF IsNullish(list[i]) THEN <<Throw("TypeError")>>
                       ELSE LET es == ObjectEntries(list[i])
                            IN [j \in 1..Len(es) |-> OrderByTerm(es[j].k, es[j].v)]])
  IN IF HasThrow(rs) THEN FirstThrow(rs) ELSE Arr(rs)

\* args.orderBy?.[key] ?? 'asc'
CursorDirection(orderBy, key) ==
  IF IsNullish(Get(orderBy, key)) THEN Str("asc") ELSE Get(orderBy, key)

\* faulty variant: the caller's cursor field first, createdAt second
CursorTriplesKeyFirst(args, key, value) ==
  << <<ModelGet(key),
       CursorDirection(Get(args, "orderBy"), key),
       value>>,
     <<ModelGet("createdAt"),
       CursorDirection(Get(args, "orderBy"), "createdAt"),
       Get(Get(args, "cursor"), "createdAt")>> >>

\* the cursors argument transformQuery builds from args.cursor
CursorTriples(args, key, value) ==
  << <<ModelGet("createdAt"),
       CursorDirection(Get(args, "orderBy"), "createdAt"),
       Get(Get(args, "cursor"), "createdAt")>>,
     <<ModelGet(key),
       CursorDirection(Get(args, "orderBy"), key),
       value>> >>

\* response.columns = args.select
TransformSelect(select) == select

parseSelect(select) ==
  IF IsNullish(select) THEN Throw("TypeError")
  ELSE LET es == ObjectEntries(select)
           RECURSIVE Build(_)
           Build(i) ==
             CASE i > Len(es) -> <<>>
               [] Truthy(es[i].v) -> <<KV(es[i].k, ModelGet(es[i].k))>> \o Build(i + 1)
               [] OTHER -> Build(i + 1)
       IN IF \E i \in 1..Len(es) : TypeofObject(es[i].v)
          THEN Throw("Nested select is not supported")
          ELSE Obj(Build(1))

\* faulty variant: nested include values are passed through untranslated
parseIncludeShallow(include) ==
  IF IsNullish(include) THEN Throw("TypeError") ELSE Obj(ObjectEntries(include))

RECURSIVE transformQuery(_), parseInclude(_)

parseInclude(include) ==
  IF IsNullish(include) THEN Throw("TypeError")
  ELSE LET es == ObjectEntries(include)
           rs == [i \in 1..Len(es) |->
                    IF TypeofObject(es[i].v) THEN transformQuery(es[i].v) ELSE es[i].v]
       IN IF HasThrow(rs) THEN FirstThrow(rs)
          ELSE Obj([i \in 1..Len(es) |-> KV(es[i].k, rs[i])])

transformQuery(args) ==
  IF IsNullish(args) THEN Throw("TypeError")
  ELSE
  LET where == IF Truthy(Get(args, "where")) THEN parseWhere(Get(args, "where")) ELSE Undef
      with == IF Truthy(Get(args, "include")) THEN parseInclude(Get(args, "include")) ELSE Undef
      columns == IF Truthy(Get(args, "select")) THEN TransformSelect(Get(args, "select")) ELSE Undef
      limit == IF Truthy(Get(args, "take")) THEN Get(args, "take") ELSE Undef
      offset == IF Truthy(Get(args, "skip")) THEN Get(args, "skip") ELSE Undef
      orderBy == IF Truthy(Get(args, "orderBy")) THEN OrderByTerms(Get(args, "orderBy")) ELSE Undef
      cursor == Get(args, "cursor")
  IN CASE IsThrow(where) -> where
       [] IsThrow(with) -> with
       [] IsThrow(orderBy) -> orderBy
       [] ~Truthy(cursor) -> DrizzleQueryArgs(where, with, columns, limit, offset, orderBy)
       [] ObjectEntries(cursor) = <<>> -> Throw("TypeError")
       [] OTHER ->
            LET first == ObjectEntries(cursor)[1]
                page == withCursorPagination(CursorTriples(args, first.k, first.v),
                                             limit, where)
            IN DrizzleQueryArgs(page.where, with, columns, page.limit, offset, page.orderBy)

-----------------------------------------------------------------------------
(* Row semantics of a built predicate: SQL's three-valued logic, "T", "F"  *)
(* or "U" (unknown).  A row maps each column name to a number or to null.  *)

\* a comparison of a column with an operand: unknown when either is NULL
Compare(op, a, b) ==
  IF a.t # "number" \/ b.t # "number" THEN "U"
  ELSE LET holds == CASE op = "eq" -> a.n = b.n
                      [] op = "ne" -> a.n # b.n
                      [] op = "gt" -> a.n > b.n
                      [] op = "gte" -> a.n >= b.n
                      [] op = "lt" -> a.n < b.n
                      [] op = "lte" -> a.n <= b.n
       IN IF holds THEN "T" ELSE "F"

Not3(v) == CASE v = "T" -> "F" [] v = "F" -> "T" [] OTHER -> "U"
And3(vs) == CASE "F" \in vs -> "F" [] "U" \in vs -> "U" [] OTHER -> "T"
Or3(vs) == CASE "T" \in vs -> "T" [] "U" \in vs -> "U" [] OTHER -> "F"

RECURSIVE Eval(_, _)
Eval(e, row) ==
  CASE e.op \in {"eq", "ne", "gt", "gte", "lt", "lte"} ->
         Compare(e.op, row[e.column.name], e.value)
    [] e.op = "isNull" -> IF row[e.arg.name] = Null THEN "T" ELSE "F"
    [] e.op = "isNotNull" -> IF row[e.arg.name] = Null THEN "F" ELSE "T"
    [] e.op = "not" -> Not3(Eval(e.arg, row))
    [] e.op \in {"and", "sql"} -> And3({Eval(e.args[i], row) : i \in 1..Len(e.args)})
    [] e.op = "or" -> Or3({Eval(e.args[i], row) : i \in 1..Len(e.args)})

\* the rows a query with this `where` returns: all rows when it is
\* undefined, else the rows on which it is true
Selects(where, row) == where = Undef \/ Eval(where, row) = "T"

-----------------------------------------------------------------------------
(* The calls made on a transformer                                         *)

Call(method, args) == [method |-> method, args |-> args]

\* sequences over S of length lo..hi
SeqsOf(S, lo, hi) == UNION {[1..n -> S] : n \in lo..hi}

Vals == 0..MaxVal
Literals == {Num(n) : n \in Vals}
Directions == {Str("asc"), Str("desc")}

\* the table of the test suite reduced to three columns, and a table
\* without a createdAt column
Tables == {{"id", "status", "createdAt"}, {"id", "status"}}

\* field names used in filters: id is a column of every table, createdAt of
\* one only
WhereFields == {"id", "createdAt"}

\* array operands (an empty array is left out: what inArray and notInArray do
\* with it differs between drizzle-orm releases)
ListOperands == {Arr(s) : s \in SeqsOf(Literals, 1, MaxList)}

Operands ==
  Literals \cup ListOperands
  \cup {Null, Str("a"), Obj(<<KV("gt", Num(1))>>)}

OperatorObjects ==
  {Obj(<<KV(op, v)>>) : op \in OperatorNames \cup {"regex"}, v \in Operands}
  \cup {Obj(<<KV("contains", Str("a")), KV("mode", Str(m))>>) : m \in {"insensitive", "default"}}
  \cup {Obj(<<KV("mode", Str("insensitive")), KV("contains", Str("a"))>>),
        Obj(<<KV("mode", Str("insensitive"))>>), Obj(<<>>)}
  \cup {Obj(<<KV("gte", x), KV("lt", y)>>) : x \in Literals, y \in Literals}

\* single-entry trees on a field
FieldTrees ==
  {Obj(<<KV(f, v)>>) :
     f \in WhereFields,
     v \in Literals \cup {Null, Undef, Arr(<<Num(1)>>)} \cup OperatorObjects}

\* equality and null-test trees, the elements of the logical arrays
SimpleTrees == {Obj(<<KV(f, v)>>) : f \in WhereFields, v \in Literals \cup {Null}}

\* two-entry trees {a: x, b: y}
FlatTrees ==
  {Obj(<<KV(p[1], x), KV(p[2], y)>>) :
     p \in {q \in WhereFields \X WhereFields : q[1] # q[2]},
     x \in Literals, y \in Literals}

\* AND/OR/NOT over an array of sub-trees, or over one sub-tree object
LogicalTrees ==
  {Obj(<<KV(l, Arr(s))>>) : l \in LogicalOperators, s \in SeqsOf(SimpleTrees, 0, MaxList)}
  \cup {Obj(<<KV(l, w)>>) : l \in LogicalOperators, w \in SimpleTrees \cup FlatTrees}

\* a NOT array as the first element of an enclosing AND or OR array
NestedNotTrees ==
  {Obj(<<KV(l, Arr(<<Obj(<<KV("NOT", Arr(s))>>)>> \o rest))>>) :
     l \in {"AND", "OR"},
     s \in SeqsOf(SimpleTrees, 1, MaxList),
     rest \in {<<>>, <<Obj(<<KV("id", Num(0))>>)>>}}

WhereTrees == FieldTrees \cup FlatTrees \cup LogicalTrees \cup NestedNotTrees

\* a member left out of a drawn object
Absent == [t |-> "absent"]
Present(e) == e.v # Absent
\* the object with the given members, the absent ones left out
OptObj(entries) == Obj(SelectSeq(entries, Present))

\* ---- query descriptions ----

QueryWheres ==
  {Absent,
   Obj(<<KV("id", Num(1))>>),
   Obj(<<KV("status", Null)>>),
   Obj(<<KV("type", Num(1))>>)}

QuerySelects ==
  {Absent,
   Obj(<<KV("id", Bool(TRUE)), KV("name", Bool(TRUE))>>),
   Obj(<<KV("type", Obj(<<KV("name", Bool(TRUE))>>))>>)}

\* queries nested in an include
NestedQueries ==
  {Obj(<<KV("select", Obj(<<KV("name", Bool(TRUE))>>))>>),
   Obj(<<KV("include", Obj(<<KV("metadata", Bool(TRUE))>>))>>),
   Obj(<<KV("include",
            Obj(<<KV("type", Obj(<<KV("select", Obj(<<KV("name", Bool(TRUE))>>))>>))>>))>>),
   Obj(<<KV("where", Obj(<<KV("id", Num(1))>>))>>),
   Obj(<<KV("where", Obj(<<KV("type", Num(1))>>))>>),
   Obj(<<KV("take", Num(2)), KV("skip", Num(1))>>),
   Obj(<<KV("orderBy", Obj(<<KV("id", Str("desc"))>>))>>),
   Obj(<<>>)}

IncludeValues == {Bool(TRUE), Bool(FALSE), Num(1), Null} \cup NestedQueries

Includes ==
  {Obj(<<KV("type", v)>>) : v \in IncludeValues}
  \cup {Obj(<<KV("metadata", b), KV("type", v)>>) :
          b \in {Bool(TRUE), Bool(FALSE)}, v \in NestedQueries}
  \cup {Obj(<<KV("type", v), KV("metadata", Bool(TRUE))>>) : v \in NestedQueries}
  \cup {Obj(<<>>)}

QueryIncludes ==
  {Absent,
   Obj(<<KV("metadata", Bool(TRUE))>>),
   Obj(<<KV("metadata", Bool(TRUE)),
         KV("type", Obj(<<KV("select", Obj(<<KV("name", Bool(TRUE))>>))>>))>>)}

QueryOrderBys ==
  {Absent, Obj(<<KV("type", Str("asc"))>>)}
  \cup {Obj(<<KV(f, d)>>) : f \in WhereFields, d \in Directions}
  \cup {Obj(<<KV("createdAt", d1), KV("id", d2)>>) : d1 \in Directions, d2 \in Directions}
  \cup {Arr(<<Obj(<<KV("createdAt", d1)>>), Obj(<<KV("id", d2)>>)>>) :
          d1 \in Directions, d2 \in Directions}

\* cursor keys: id is a column of every table, createdAt of one, type of none
CursorFields == {"id", "createdAt", "type"}

QueryCursors ==
  {Absent, Obj(<<>>)}
  \cup {Obj(<<KV(f, v)>>) : f \in CursorFields, v \in Literals}
  \cup {Obj(<<KV("createdAt", v), KV("id", w)>>) : v \in Literals, w \in Literals}
  \cup {Obj(<<KV("id", w), KV("createdAt", v)>>) : v \in Literals, w \in Literals}

\* where / include / select / take / skip
ProjectionQueries ==
  {OptObj(<<KV("where", w), KV("include", i), KV("select", s),
            KV("take", t), KV("skip", k)>>) :
     w \in QueryWheres, i \in QueryIncludes, s \in QuerySelects,
     t \in {Absent, Num(0), Num(10)}, k \in {Absent, Num(0), Num(5)}}

\* where / take / orderBy / cursor
PaginationQueries ==
  {OptObj(<<KV("where", w), KV("take", t), KV("orderBy", o), KV("cursor", c)>>) :
     w \in QueryWheres, t \in {Absent, Num(2)}, o \in QueryOrderBys, c \in QueryCursors}

\* ---- select descriptions ----

SelectDescriptions ==
  {Obj(<<>>),
   Obj(<<KV("id", Bool(TRUE)), KV("name", Bool(TRUE))>>),
   Obj(<<KV("id", Bool(TRUE)), KV("status", Bool(FALSE))>>),
   Obj(<<KV("type", Obj(<<KV("name", Bool(TRUE))>>))>>),
   Obj(<<KV("id", Bool(TRUE)), KV("type", Obj(<<KV("name", Bool(TRUE))>>))>>),
   Obj(<<KV("id", Null)>>)}

\* ---- withCursorPagination arguments ----

CursorColumns == {Column("id"), Column("createdAt")}

\* a triple without a cursor value has undefined in its third place
CursorTriple ==
  {<<c, d, v>> : c \in CursorColumns, d \in Directions, v \in Literals \cup {Undef}}

CursorArgs ==
  {[cursors |-> cs, limit |-> Num(10), where |-> w] :
     cs \in SeqsOf(CursorTriple, 1, 2),
     w \in {Undef, eq(Column("status"), Num(1))}}

\* a filter alone
WhereQueries == {Obj(<<KV("where", w)>>) : w \in WhereTrees}

\* the calls drawn in Init
ParseWhereCalls == {Call("parseWhere", w) : w \in WhereTrees}
TransformQueryCalls ==
  {Call("transformQuery", q) :
     q \in ProjectionQueries \cup PaginationQueries \cup WhereQueries}
ParseIncludeCalls == {Call("parseInclude", i) : i \in Includes}
ParseSelectCalls == {Call("parseSelect", x) : x \in SelectDescriptions}
WithCursorPaginationCalls == {Call("withCursorPagination", a) : a \in CursorArgs}

Calls ==
  ParseWhereCalls \cup TransformQueryCalls \cup ParseIncludeCalls
  \cup ParseSelectCalls \cup WithCursorPaginationCalls

-----------------------------------------------------------------------------
(* The state machine: a transformer is constructed on a table (model), one *)
(* call is drawn, and the method it names runs to completion.              *)

Init ==
  /\ model \in Tables
  /\ call \in Calls
  /\ pc = "ready"
  /\ result = Undef

Finish(r) ==
  /\ pc = "ready"
  /\ pc' = "done"
  /\ result' = r
  /\ UNCHANGED <<model, call>>

TransformQuery == call.method = "transformQuery" /\ Finish(transformQuery(call.args))

ParseWhere == call.method = "parseWhere" /\ Finish(parseWhere(call.args))

ParseInclude == call.method = "parseInclude" /\ Finish(parseInclude(call.args))

ParseSelect == call.method = "parseSelect" /\ Finish(parseSelect(call.args))

WithCursorPagination ==
  /\ call.method = "withCursorPagination"
  /\ Finish(withCursorPagination(call.args.cursors, call.args.limit, call.args.where))

Next ==
  \/ TransformQuery
  \/ ParseWhere
  \/ ParseInclude
  \/ ParseSelect
  \/ WithCursorPagination

Spec == Init /\ [][Next]_vars

-----------------------------------------------------------------------------
(* Properties                                                              *)

Done(method) == pc = "done" /\ call.method = method

\* rows over the three columns of the larger table; NULL included
RowColumns == {"id", "status", "createdAt"}
Rows == [RowColumns -> Literals \cup {Null}]
\* rows of NOT NULL columns
NonNullRows == [RowColumns -> Literals]

\* a strict comparison of column `name` with `value` occurs in expression e
RECURSIVE HasBoundary(_, _, _)
HasBoundary(e, name, value) ==
  /\ e.t = "sql"
  /\ \/ /\ e.op \in {"gt", "lt"}
        /\ e.column = Column(name)
        /\ e.value = value
     \/ /\ e.op \in {"and", "or", "sql"}
        /\ \E i \in 1..Len(e.args) : HasBoundary(e.args[i], name, value)

\* the call is transformQuery on a description whose cursor has at least
\* one entry, and it returned
CursorTranslated ==
  /\ Done("transformQuery")
  /\ Truthy(Get(call.args, "cursor"))
  /\ ObjectEntries(Get(call.args, "cursor")) # <<>>
  /\ ~IsThrow(result)

CursorKey == ObjectEntries(Get(call.args, "cursor"))[1].k
CursorValue == ObjectEntries(Get(call.args, "cursor"))[1].v

\* C1 (as claimed): a cursor with exactly one entry (key, value), key a
\* column of the table and value defined, puts the boundary predicate for
\* that cursor into the output where: alone when no where was given,
\* and as AND(parsed where, boundary predicate) when one was given.
\* Stated for a table that has the createdAt column.
C1_CursorBoundaryInWhere ==
  (/\ CursorTranslated
   /\ "createdAt" \in model
   /\ Len(ObjectEntries(Get(call.args, "cursor"))) = 1
   /\ CursorKey \in model
   /\ Defined(CursorValue))
  => IF Get(call.args, "where") = Undef
     THEN HasBoundary(result.where, CursorKey, CursorValue)
     ELSE /\ result.where.t = "sql"
          /\ result.where.op = "and"
          /\ Len(result.where.args) = 2
          /\ result.where.args[1] = parseWhere(Get(call.args, "where"))
          /\ HasBoundary(result.where.args[2], CursorKey, CursorValue)

SortTerm(e, column) == e.t = "sql" /\ e.op \in {"asc", "desc"} /\ e.arg = column

\* C2 (as claimed): with a cursor entry (key, value) the output orderBy is
\* [sort(key), sort(createdAt)]: createdAt is the second ordering key.
\* Stated for a table that has the createdAt column.
C2_CreatedAtSecond ==
  (CursorTranslated /\ "createdAt" \in model)
  => /\ Len(result.orderBy.elems) = 2
     /\ SortTerm(result.orderBy.elems[1], ModelGet(CursorKey))
     /\ SortTerm(result.orderBy.elems[2], ModelGet("createdAt"))

\* C2 (amended): with a cursor entry (key, value) the first ordering term
\* is the sort term of the table's createdAt entry; when key is a column of
\* the table the output orderBy is [sort(createdAt), sort(key)], and when
\* it is not, [sort(createdAt)] alone.
C2_CreatedAtFirst ==
  CursorTranslated
  => /\ SortTerm(result.orderBy.elems[1], ModelGet("createdAt"))
     /\ IF CursorKey \in model
        THEN /\ Len(result.orderBy.elems) = 2
             /\ SortTerm(result.orderBy.elems[2], Column(CursorKey))
        ELSE Len(result.orderBy.elems) = 1

C2_Witness ==
  /\ CursorTranslated
  /\ CursorKey = "id"
  /\ "createdAt" \in model
  /\ Len(result.orderBy.elems) = 2
  /\ result.orderBy.elems[1].arg = Column("createdAt")
  /\ result.orderBy.elems[2].arg = Column("id")

\* withCursorPagination was called with two triples on different columns,
\* both carrying a boundary value
TwoBoundaries ==
  /\ Done("withCursorPagination")
  /\ Len(call.args.cursors) = 2
  /\ call.args.cursors[1][1] # call.args.cursors[2][1]
  /\ Defined(call.args.cursors[1][3])
  /\ Defined(call.args.cursors[2][3])

\* the boundary pair as a row: each cursor column at its boundary value
BoundaryRow ==
  [c \in {call.args.cursors[1][1].name, call.args.cursors[2][1].name} |->
     IF c = call.args.cursors[1][1].name
     THEN call.args.cursors[1][3]
     ELSE call.args.cursors[2][3]]

\* row is strictly past the boundary on the column of one sort term
Beyond(term, row, boundary) ==
  IF term.op = "asc"
  THEN row[term.arg.name].n > boundary[term.arg.name].n
  ELSE row[term.arg.name].n < boundary[term.arg.name].n

\* row sorts strictly after the boundary in the lexicographic order that
\* the sort terms define
SortsAfter(terms, row, boundary) ==
  \E i \in 1..Len(terms) :
    /\ \A j \in 1..(i - 1) : row[terms[j].arg.name] = boundary[terms[j].arg.name]
    /\ Beyond(terms[i], row, boundary)

\* C3: with two triples that both carry a boundary value, the rows (of NOT
\* NULL columns) that the output where selects are exactly the rows that
\* the existing filter selects and that sort strictly after the boundary
\* pair in the emitted orderBy ordering, for every combination of
\* directions.
C3_KeysetExact ==
  TwoBoundaries
  => \A row \in NonNullRows :
       Selects(result.where, row)
       <=> /\ Selects(call.args.where, row)
           /\ SortsAfter(result.orderBy.elems, row, BoundaryRow)

C3_Witness ==
  /\ TwoBoundaries
  /\ call.args.cursors[1][2] = Str("asc")
  /\ call.args.cursors[2][2] = Str("desc")
  /\ call.args.where = Undef
  /\ \E row \in NonNullRows :
       /\ row[call.args.cursors[1][1].name] = call.args.cursors[1][3]
       /\ Selects(result.where, row)
  /\ \E row \in NonNullRows :
       /\ row[call.args.cursors[1][1].name] = call.args.cursors[1][3]
       /\ ~Selects(result.where, row)

\* the boundary predicate of sections 4.4.2 and 4.4.3, written out
ExpectedBoundary(cursors) ==
  LET c1Defined(cs) == cs[1][3] # Undef
      cmp(c) == [t |-> "sql",
                 op |-> IF c[2] = Str("asc") THEN "gt" ELSE "lt",
                 column |-> c[1], value |-> c[3]]
  IN IF Len(cursors) = 1
     THEN (IF c1Defined(cursors) THEN cmp(cursors[1]) ELSE Undef)
     ELSE IF c1Defined(cursors) /\ cursors[2][3] # Undef
          THEN [t |-> "sql", op |-> "or",
                args |-> <<cmp(cursors[1]),
                           [t |-> "sql", op |-> "and",
                            args |-> <<[t |-> "sql", op |-> "eq",
                                        column |-> cursors[1][1],
                                        value |-> cursors[1][3]],
                                       cmp(cursors[2])>>]>>]
          ELSE Undef

ExpectedSort(c) ==
  [t |-> "sql", op |-> IF c[2] = Str("asc") THEN "asc" ELSE "desc", arg |-> c[1]]

\* C4: for every call of withCursorPagination the output orderBy is
\* [sort(primary)] followed by [sort(secondary)] when a second triple is
\* supplied, the output limit is the input limit, and the output where is
\* AND(existing, boundary) when both exist, the boundary alone without an
\* existing where, the existing where alone without a boundary predicate,
\* and absent when neither exists.
C4_PaginationOutput ==
  Done("withCursorPagination")
  => LET cs == call.args.cursors
         existing == call.args.where
         boundary == ExpectedBoundary(cs)
     IN /\ result.orderBy.elems = [i \in 1..Len(cs) |-> ExpectedSort(cs[i])]
        /\ result.limit = call.args.limit
        /\ result.where =
             CASE existing # Undef /\ boundary # Undef ->
                    [t |-> "sql", op |-> "and", args |-> <<existing, boundary>>]
               [] existing = Undef /\ boundary # Undef -> boundary
               [] existing # Undef /\ boundary = Undef -> existing
               [] OTHER -> Undef

C4_Witness ==
  /\ Done("withCursorPagination")
  /\ Len(call.args.cursors) = 2
  /\ call.args.where # Undef
  /\ Defined(call.args.cursors[1][3])
  /\ Defined(call.args.cursors[2][3])
  /\ result.where.op = "and"
  /\ Len(result.orderBy.elems) = 2

\* some entry of the description's select has a nested object as value
NestedSelect(args) ==
  LET select == Get(args, "select")
  IN /\ IsPlainObject(select)
     /\ \E i \in 1..Len(select.entries) : IsPlainObject(select.entries[i].v)

\* C5 (as claimed): translating a query description whose select has an
\* entry with a nested object value fails (nested select is not supported)
\* and returns no translated arguments.
C5_NestedSelectFails ==
  (Done("transformQuery") /\ NestedSelect(call.args))
  => IsThrow(result)

\* the include description holds only booleans, numbers and nested objects
PlainInclude(include) ==
  \A i \in 1..Len(include.entries) :
    include.entries[i].v.t \in {"boolean", "number", "object"}

\* C6: parseInclude returns a mapping with the same keys, in which each
\* nested object is replaced by its full transformQuery translation and
\* each boolean or scalar (null apart) is passed through unchanged; it fails
\* when, and only when, the translation of a nested object fails.  So
\* {metadata: true, type: {select: {name: true}}} becomes
\* {metadata: true, type: {columns: {name: true}}}.
C6_IncludeTranslated ==
  (Done("parseInclude") /\ PlainInclude(call.args))
  => LET es == call.args.entries
         nested(i) == es[i].v.t = "object"
     IN IF \E i \in 1..Len(es) : nested(i) /\ IsThrow(transformQuery(es[i].v))
        THEN IsThrow(result)
        ELSE /\ result.t = "object"
             /\ Len(result.entries) = Len(es)
             /\ \A i \in 1..Len(es) :
                  /\ result.entries[i].k = es[i].k
                  /\ nested(i) => result.entries[i].v = transformQuery(es[i].v)
                  /\ ~nested(i) => result.entries[i].v = es[i].v
                  /\ Get(es[i].v, "select") # Undef
                     => /\ result.entries[i].v.t = "args"
                        /\ result.entries[i].v.columns = Get(es[i].v, "select")

C6_Witness ==
  /\ Done("parseInclude")
  /\ call.args = Obj(<<KV("metadata", Bool(TRUE)),
                       KV("type", Obj(<<KV("select", Obj(<<KV("name", Bool(TRUE))>>))>>))>>)
  /\ result.entries[1] = KV("metadata", Bool(TRUE))
  /\ result.entries[2].k = "type"
  /\ result.entries[2].v.columns = Obj(<<KV("name", Bool(TRUE))>>)
  /\ result.entries[2].v.where = Undef

\* the single-entry tree {field: value}
Tree1(field, value) == Obj(<<KV(field, value)>>)

\* C7: for a field of the table and a literal value, parseWhere of
\* {field: value} and of {field: {equals: value}} return the same
\* predicate: the one-condition AND (new SQL([c])) around eq(column, value),
\* not the bare equality.
C7_EqualsShorthand ==
  Done("parseWhere")
  => \A f \in model, v \in Literals :
       call.args \in {Tree1(f, v), Tree1(f, Tree1("equals", v))}
       => /\ result = [t |-> "sql", op |-> "sql",
                       args |-> <<[t |-> "sql", op |-> "eq",
                                   column |-> Column(f), value |-> v]>>]
          /\ result = parseWhere(Tree1(f, v))
          /\ result = parseWhere(Tree1(f, Tree1("equals", v)))

C7_Witness ==
  /\ Done("parseWhere")
  /\ call.args = Tree1("id", Tree1("equals", Num(1)))
  /\ result.op = "sql"
  /\ result.args[1].op = "eq"

\* the tree {keyword: [{a: x}, {b: y}]}
Logical2(keyword, a, x, b, y) == Tree1(keyword, Arr(<<Tree1(a, x), Tree1(b, y)>>))

\* C8: for distinct fields a, b of the table and literals x, y, on every
\* row (NULLs included) the predicate of {AND: [{a: x}, {b: y}]} has the
\* truth value of the predicate of {a: x, b: y}, the conjunction of the two
\* equalities, and the predicate of {OR: [{a: x}, {b: y}]} has the truth
\* value of their disjunction; so the OR form and the AND form select
\* differently on each row that satisfies exactly one equality.
C8_AndOrComposition ==
  Done("parseWhere")
  => \A a \in model : \A b \in model \ {a} : \A x \in Literals, y \in Literals :
       LET flat == parseWhere(Obj(<<KV(a, x), KV(b, y)>>))
           ea(row) == Compare("eq", row[a], x)
           eb(row) == Compare("eq", row[b], y)
       IN /\ call.args = Logical2("AND", a, x, b, y)
             => \A row \in Rows :
                  /\ Eval(result, row) = Eval(flat, row)
                  /\ Eval(result, row) = And3({ea(row), eb(row)})
          /\ call.args = Logical2("OR", a, x, b, y)
             => \A row \in Rows :
                  /\ Eval(result, row) = Or3({ea(row), eb(row)})
                  /\ ({ea(row), eb(row)} = {"T", "F"}
                      => Selects(result, row) /\ ~Selects(flat, row))

C8_Witness ==
  /\ Done("parseWhere")
  /\ call.args = Logical2("OR", "id", Num(1), "createdAt", Num(2))
  /\ "createdAt" \in model
  /\ result.args[1].op = "or"
  /\ \E row \in Rows : row["id"] = Num(1) /\ row["createdAt"] = Num(0) /\ Selects(result, row)

\* C9: for a field of the table, `in` and `notIn` fail (operand must be an
\* array) when the operand is no array, and for a (non-empty) array operand
\* yield the membership, respectively non-membership, predicate on that
\* column and operand.
C9_InNotIn ==
  Done("parseWhere")
  => \A f \in model, v \in Operands :
       /\ call.args = Tree1(f, Tree1("in", v))
          => result = IF v.t = "array"
                      THEN [t |-> "sql", op |-> "sql",
                            args |-> <<[t |-> "sql", op |-> "inArray",
                                        column |-> Column(f), value |-> v]>>]
                      ELSE Throw("Value for 'in' operator must be an array")
       /\ call.args = Tree1(f, Tree1("notIn", v))
          => result = IF v.t = "array"
                      THEN [t |-> "sql", op |-> "sql",
                            args |-> <<[t |-> "sql", op |-> "notInArray",
                                        column |-> Column(f), value |-> v]>>]
                      ELSE Throw("Value for 'notIn' operator must be an array")

C9_Witness ==
  /\ Done("parseWhere")
  /\ call.args = Tree1("id", Tree1("in", Num(1)))
  /\ result = Throw("Value for 'in' operator must be an array")

\* the keys of an object
Keys(obj) == {obj.entries[i].k : i \in 1..Len(obj.entries)}

\* the field identifiers a filter tree references: its keys other than
\* AND/OR/NOT, at any depth below logical keywords
RECURSIVE WhereFieldKeys(_)
WhereFieldKeys(w) ==
  IF w.t # "object" THEN {}
  ELSE UNION {LET e == w.entries[i]
              IN CASE e.k \notin LogicalOperators -> {e.k}
                   [] e.v.t = "array" ->
                        UNION {WhereFieldKeys(e.v.elems[j]) : j \in 1..Len(e.v.elems)}
                   [] OTHER -> WhereFieldKeys(e.v)
              : i \in 1..Len(w.entries)}

\* the field identifiers of an orderBy (one map or a sequence of maps)
OrderByKeys(o) ==
  CASE o.t = "object" -> Keys(o)
    [] o.t = "array" -> UNION {Keys(o.elems[i]) : i \in 1..Len(o.elems)}
    [] OTHER -> {}

\* the field identifiers of a select
SelectKeys(x) == IF x.t = "object" THEN Keys(x) ELSE {}

\* C11 (as claimed): when transformQuery returns, every key of the where
\* tree that is not AND/OR/NOT, every key of orderBy and every key of
\* select names a column of the table; a description that references a field
\* that is no column fails; and a filter whose fields are all columns never
\* fails with an invalid-field error on account of an AND, OR or NOT key.
C11_FieldsResolve ==
  Done("transformQuery")
  => LET whereKeys == WhereFieldKeys(Get(call.args, "where"))
         referenced == whereKeys \cup OrderByKeys(Get(call.args, "orderBy"))
                       \cup SelectKeys(Get(call.args, "select"))
     IN /\ ~IsThrow(result) => referenced \subseteq model
        /\ ~(referenced \subseteq model) => IsThrow(result)
        /\ whereKeys \subseteq model
           => result \notin {Throw("Invalid field"), Throw("Invalid where field")}

\* a predicate without the one-condition groups that and/or wrap around it
RECURSIVE Unwrap(_)
Unwrap(e) ==
  IF e.t = "sql" /\ e.op = "sql" /\ Len(e.args) = 1 THEN Unwrap(e.args[1]) ELSE e

\* the call is parseWhere({NOT: S}) with S one sub-tree object that parses
NotOfOneObject ==
  /\ Done("parseWhere")
  /\ call.args.t = "object"
  /\ Len(call.args.entries) = 1
  /\ call.args.entries[1].k = "NOT"
  /\ call.args.entries[1].v.t = "object"
  /\ ~IsThrow(parseWhere(call.args.entries[1].v))

\* C12 (as claimed): for a sub-tree S that parses, parseWhere({NOT: S}) with
\* S one object succeeds, is the negation of parseWhere(S), and equals
\* parseWhere({NOT: [S]}).
C12_NotSingleObject ==
  NotOfOneObject
  => LET S == call.args.entries[1].v
     IN /\ ~IsThrow(result)
        /\ Unwrap(result) = not(parseWhere(S))
        /\ result = parseWhere(Tree1("NOT", Arr(<<S>>)))

\* the arguments of the parseOperators call that `not` makes for an operand
\* of type object: the ones it was called with
operatorMapNotCall(operatorObject, operator, operatorValue, fieldOrJoinOperator) ==
  <<operatorObject, operator, operatorValue, fieldOrJoinOperator>>

\* the nested parseOperators calls that a call on a column makes through
\* `not`, counted up to fuel
RECURSIVE parseOperatorsCalls(_, _, _, _, _)
parseOperatorsCalls(operatorObject, operator, operatorValue, fieldOrJoinOperator, fuel) ==
  IF fuel = 0 THEN 0
  ELSE IF operator = "not" /\ operatorValue # Null /\ TypeofObject(operatorValue)
       THEN LET inner == operatorMapNotCall(operatorObject, operator, operatorValue,
                                            fieldOrJoinOperator)
            IN 1 + parseOperatorsCalls(inner[1], inner[2], inner[3], inner[4], fuel - 1)
       ELSE 1

\* the number of nodes of a value: the size of a tree
RECURSIVE Size(_), SizeOfAll(_)
Size(v) ==
  CASE v.t = "object" -> 1 + SizeOfAll([i \in 1..Len(v.entries) |-> v.entries[i].v])
    [] v.t = "array" -> 1 + SizeOfAll(v.elems)
    [] OTHER -> 1
SizeOfAll(s) == IF s = <<>> THEN 0 ELSE Size(Head(s)) + SizeOfAll(Tail(s))

\* the call is parseWhere({f: {not: operand}}) on a column f
NotOnColumn ==
  /\ Done("parseWhere")
  /\ call.args.t = "object"
  /\ Len(call.args.entries) = 1
  /\ call.args.entries[1].k \in model
  /\ call.args.entries[1].v.t = "object"
  /\ Len(call.args.entries[1].v.entries) = 1
  /\ call.args.entries[1].v.entries[1].k = "not"
NotOperand == call.args.entries[1].v.entries[1].v

\* C13 (as claimed): parseWhere ends, with a predicate or an error of its
\* own, after a number of recursive calls bounded by the size of the tree,
\* and the call that `not` makes on an object operand is on a strictly
\* smaller input.
C13_BoundedRecursion ==
  /\ Done("parseWhere") => result # Throw("RangeError")
  /\ NotOnColumn
     => LET f == call.args.entries[1].k
            operatorObject == call.args.entries[1].v
            inner == operatorMapNotCall(operatorObject, "not", NotOperand, f)
        IN /\ parseOperatorsCalls(operatorObject, "not", NotOperand, f,
                                  Size(call.args) + 1) <= Size(call.args)
           /\ NotOperand # Null /\ TypeofObject(NotOperand)
              => Size(inner[3]) < Size(NotOperand)

\* C14 (as claimed): on a column f, `not` with a null operand is the
\* is-not-null test; with an operator object it is the negation of the
\* operand's own operators resolved against f ({f: {not: {gt: v}}} is
\* NOT(f > v)); with a scalar v it is NOT(f = v).
C14_NotOperator ==
  NotOnColumn
  => LET f == call.args.entries[1].k
         property == Column(f)
     IN CASE NotOperand = Null -> Unwrap(result) = isNotNull(property)
          [] IsPlainObject(NotOperand) ->
               ~IsThrow(parseWhereEntry(f, NotOperand))
               => Unwrap(result) = not(parseWhereEntry(f, NotOperand))
          [] IsArray(NotOperand) -> TRUE
          [] OTHER -> Unwrap(result) = not(eq(property, NotOperand))

\* w is {NOT: [e1, ...]} with at least one element
IsNotArray(w) ==
  /\ w.t = "object"
  /\ Len(w.entries) = 1
  /\ w.entries[1].k = "NOT"
  /\ w.entries[1].v.t = "array"
  /\ Len(w.entries[1].v.elems) >= 1

\* the call is parseWhere({NOT: [e1, ...]})
TopNot == Done("parseWhere") /\ IsNotArray(call.args) /\ ~IsThrow(result)

\* the call is parseWhere({L: [{NOT: [e1, ...]}, ...]}) with L AND or OR
NestedNot ==
  /\ Done("parseWhere")
  /\ call.args.t = "object"
  /\ Len(call.args.entries) = 1
  /\ call.args.entries[1].k \in {"AND", "OR"}
  /\ call.args.entries[1].v.t = "array"
  /\ Len(call.args.entries[1].v.elems) >= 1
  /\ IsNotArray(call.args.entries[1].v.elems[1])
  /\ ~IsThrow(result)

\* the truth values on a row of the negations of the elements of {NOT: [...]}
Negations(w, row) ==
  {Not3(Eval(parseWhere(w.entries[1].v.elems[i]), row)) :
     i \in 1..Len(w.entries[1].v.elems)}

\* the truth values on a row of the elements after the first
Siblings(elems, row) == {Eval(parseWhere(elems[i]), row) : i \in 2..Len(elems)}

\* the truth value of {L: [{NOT: [...]}, ...]} when the negated elements are
\* joined as `inner` says and the enclosing array as L says
NestedNotValue(inner, row) ==
  LET elems == call.args.entries[1].v.elems
      group == IF inner = "OR" THEN Or3(Negations(elems[1], row))
               ELSE And3(Negations(elems[1], row))
  IN IF call.args.entries[1].k = "OR"
     THEN Or3({group} \cup Siblings(elems, row))
     ELSE And3({group} \cup Siblings(elems, row))

\* C15 (as claimed): each element of a NOT array is parsed and negated; the
\* negations are AND-combined at top level and under AND, and OR-combined
\* when the NOT is inside an element of an enclosing OR.
C15_NotArrayFollowsOr ==
  /\ TopNot => \A row \in Rows : Eval(result, row) = And3(Negations(call.args, row))
  /\ NestedNot
     => \A row \in Rows :
          Eval(result, row) = NestedNotValue(call.args.entries[1].k, row)

\* C15 (amended): each element of a NOT array is parsed and negated, and the
\* negations are AND-combined wherever the NOT stands: at top level, under
\* AND, and inside an element of an enclosing OR alike.
C15_NotArrayAlwaysAnd ==
  /\ TopNot => \A row \in Rows : Eval(result, row) = And3(Negations(call.args, row))
  /\ NestedNot => \A row \in Rows : Eval(result, row) = NestedNotValue("AND", row)

\* a two-element NOT array inside an OR, on a row where exactly one negation
\* holds: the row is not selected
C15_Witness ==
  /\ NestedNot
  /\ call.args = Tree1("OR", Arr(<<Tree1("NOT", Arr(<<Tree1("id", Num(1)),
                                                      Tree1("createdAt", Num(1))>>))>>))
  /\ Unwrap(result).op = "and"
  /\ \E row \in Rows :
       /\ row["id"] = Num(1)
       /\ row["createdAt"] = Num(0)
       /\ Eval(result, row) = "F"

\* the values an array-valued column can hold: a set of elements
ArrayValues == SUBSET Literals

\* the elements of an operand; a scalar operand counts as one element
Elements(v) == IF IsArray(v) THEN {v.elems[i] : i \in 1..Len(v.elems)} ELSE {v}

\* PostgreSQL's array tests on a column holding c: arrayContains is
\* column @> operand, arrayContained is column <@ operand, arrayOverlaps is
\* column && operand
ArrayTest(e, c) ==
  CASE e.op = "arrayContains" -> Elements(e.value) \subseteq c
    [] e.op = "arrayContained" -> c \subseteq Elements(e.value)
    [] e.op = "arrayOverlaps" -> c \cap Elements(e.value) # {}

\* the call is parseWhere({f: {op: operand}}) on a column f
OperatorOnColumn(op) ==
  /\ Done("parseWhere")
  /\ call.args.t = "object"
  /\ Len(call.args.entries) = 1
  /\ call.args.entries[1].k \in model
  /\ call.args.entries[1].v.t = "object"
  /\ Len(call.args.entries[1].v.entries) = 1
  /\ call.args.entries[1].v.entries[1].k = op
Operand == call.args.entries[1].v.entries[1].v

\* C16 (as claimed): on an array-valued column c, `has` tests that c
\* contains the operand element, `hasEvery` that c contains every element
\* of the operand list V (V is a subset of c, not c a subset of V), and
\* `hasSome` that c and V share an element.
C16_ArrayOperators ==
  /\ OperatorOnColumn("has") /\ Operand \in Literals
     => \A c \in ArrayValues : ArrayTest(Unwrap(result), c) <=> Operand \in c
  /\ OperatorOnColumn("hasEvery") /\ IsArray(Operand)
     => \A c \in ArrayValues :
          ArrayTest(Unwrap(result), c) <=> Elements(Operand) \subseteq c
  /\ OperatorOnColumn("hasSome") /\ IsArray(Operand)
     => \A c \in ArrayValues :
          ArrayTest(Unwrap(result), c) <=> Elements(Operand) \cap c # {}

\* the direction orderBy declares for a field, in a single map or in the
\* first map of a sequence that names the field; Undef when none does
DeclaredDirection(orderBy, field) ==
  CASE orderBy.t = "object" -> Get(orderBy, field)
    [] orderBy.t = "array" ->
         LET at == {i \in 1..Len(orderBy.elems) : Defined(Get(orderBy.elems[i], field))}
         IN IF at = {} THEN Undef
            ELSE Get(orderBy.elems[CHOOSE i \in at : \A j \in at : i <= j], field)
    [] OTHER -> Undef

\* the strict comparators (gt, lt) applied to a column inside a predicate
RECURSIVE Comparators(_, _)
Comparators(e, column) ==
  CASE e.t # "sql" -> {}
    [] e.op \in {"gt", "lt"} -> IF e.column = column THEN {e.op} ELSE {}
    [] e.op \in {"and", "or", "sql"} ->
         UNION {Comparators(e.args[i], column) : i \in 1..Len(e.args)}
    [] OTHER -> {}

\* the sort operators applied to a column in an ordering
SortOperators(orderBy, column) ==
  {orderBy.elems[i].op : i \in {j \in 1..Len(orderBy.elems) : orderBy.elems[j].arg = column}}

\* C17 (as claimed): in cursor translation each triple's sort term and strict
\* comparator follow the direction orderBy declares for the triple's field,
\* be orderBy one map or a sequence of maps: descending gives a descending
\* term and a less-than test, ascending an ascending term and a
\* greater-than test; ascending is the default only when orderBy declares
\* no direction for the field.
C17_CursorDirection ==
  CursorTranslated
  => \A field \in {"createdAt", CursorKey} \cap model :
       LET declared == DeclaredDirection(Get(call.args, "orderBy"), field)
           descending == declared = Str("desc")
       IN /\ SortOperators(result.orderBy, Column(field))
               = {IF descending THEN "desc" ELSE "asc"}
          /\ Comparators(result.where, Column(field))
               \subseteq {IF descending THEN "lt" ELSE "gt"}

====
